------------------------------ MODULE Spec2Model ------------------------------
(***************************************************************************)
(* LiveSplit auto splitter for Croc (remastered): the poll loop of main,   *)
(* the address resolution of Memory::init, the sampler update_loop and the *)
(* decision functions start / split / reset / is_loading / game_time.      *)
(***************************************************************************)
EXTENDS Integers, Sequences, FiniteSets, TLC

VARIABLES
    pc,          \* position of the main task (the statement it executes next)
    awaiting,    \* TRUE when the task is parked at an await (retry / next_tick)
    available,   \* a process named Croc64.exe exists and can be attached to
    process,     \* the attached handle: "none", "open" or "closed"
    main_module, \* Memory::init locals: resolved module base and size
    addresses,   \* the three resolved addresses (Memory), each None or Some
    watchers,    \* Watchers { level, level_complete_flag, game_status }
    settings,    \* the Settings struct as of the last settings.update()
    timerState,  \* the external timer's state, as timer::state() reports it
    raw,         \* the three raw reads of the current tick's update_loop
    log,         \* what the current tick has done so far, in order
    prev,        \* what the session's previous tick did (None before the first)
    unit         \* scratch record of the unit specifications (inputs, result)

vars == <<pc, awaiting, available, process, main_module, addresses, watchers,
          settings, timerState, raw, log, prev, unit>>

-----------------------------------------------------------------------------
(* Option and Result values *)

None == <<>>
Some(x) == <<x>>
is_some(opt) == opt # None
unwrap(opt) == opt[1]

Ok(v) == [ok |-> TRUE, val |-> v]
Err == [ok |-> FALSE, val |-> 0]

-----------------------------------------------------------------------------
(* Domain enums *)

Level == {
    "L1_1", "L1_2", "L1_3", "L1_B1", "L1_S1", "L1_4", "L1_5", "L1_6", "L1_B2",
    "L1_S2", "L2_1", "L2_2", "L2_3", "L2_B1", "L2_S1", "L2_4", "L2_5", "L2_6",
    "L2_B2", "L2_S2", "L3_1", "L3_2", "L3_3", "L3_B1", "L3_S1", "L3_4", "L3_5",
    "L3_6", "L3_B2", "L3_S2", "L4_1", "L4_2", "L4_3", "L4_B1", "L4_S1", "L4_4",
    "L4_5", "L4_6", "L4_B2", "L4_S2", "L5_1", "L5_2", "L5_3", "L5_4", "L5_B1" }

GameStatus == {"Intro", "DemoMode", "MainMenu", "WorldMap", "InGame", "Unknown"}

TimerStates == {"NotRunning", "Running", "Paused", "Ended"}

LevelFields == {
    "level_1_1", "level_1_2", "level_1_3", "level_1_b1", "level_1_s1",
    "level_1_4", "level_1_5", "level_1_6", "level_1_b2", "level_1_s2",
    "level_2_1", "level_2_2", "level_2_3", "level_2_b1", "level_2_s1",
    "level_2_4", "level_2_5", "level_2_6", "level_2_b2", "level_2_s2",
    "level_3_1", "level_3_2", "level_3_3", "level_3_b1", "level_3_s1",
    "level_3_4", "level_3_5", "level_3_6", "level_3_b2", "level_3_s2",
    "level_4_1", "level_4_2", "level_4_3", "level_4_b1", "level_4_s1",
    "level_4_4", "level_4_5", "level_4_6", "level_4_b2", "level_4_s2",
    "level_5_1", "level_5_2", "level_5_3", "level_5_4", "level_5_b1" }

SettingsFields == {"start"} \cup LevelFields

-----------------------------------------------------------------------------
(* update_loop: decoding of the three raw reads *)

decode_game_status(r) ==
    CASE r = Ok(2) -> "DemoMode"
      [] r = Ok(3) -> "MainMenu"
      [] r = Ok(5) -> "InGame"
      [] r = Ok(8) -> "WorldMap"
      [] r = Ok(12) -> "Intro"
      [] OTHER -> "Unknown"

\* the flag decoding as it would be if only the byte 1 counted as set
decode_level_complete_flag_only_one(r) == r.ok /\ r.val = 1

\* the flag's decoding as it would be if a failed read counted as set
decode_level_complete_flag_err_set(r) == ~r.ok \/ r.val # 0

decode_level_complete_flag(r) == r.ok /\ r.val # 0

decode_level(r) ==
    CASE r = Ok(10) -> "L1_1"
      [] r = Ok(11) -> "L1_2"
      [] r = Ok(12) -> "L1_3"
      [] r = Ok(13) -> "L1_B1"
      [] r = Ok(14) -> "L1_4"
      [] r = Ok(15) -> "L1_5"
      [] r = Ok(16) -> "L1_6"
      [] r = Ok(17) -> "L1_B2"
      [] r = Ok(18) -> "L1_S1"
      [] r = Ok(19) -> "L1_S2"
      [] r = Ok(20) -> "L2_1"
      [] r = Ok(21) -> "L2_2"
      [] r = Ok(22) -> "L2_3"
      [] r = Ok(23) -> "L2_B1"
      [] r = Ok(24) -> "L2_4"
      [] r = Ok(25) -> "L2_5"
      [] r = Ok(26) -> "L2_6"
      [] r = Ok(27) -> "L2_B2"
      [] r = Ok(28) -> "L2_S1"
      [] r = Ok(29) -> "L2_S2"
      [] r = Ok(30) -> "L3_1"
      [] r = Ok(31) -> "L3_2"
      [] r = Ok(32) -> "L3_3"
      [] r = Ok(33) -> "L3_B1"
      [] r = Ok(34) -> "L3_4"
      [] r = Ok(35) -> "L3_5"
      [] r = Ok(36) -> "L3_6"
      [] r = Ok(37) -> "L3_B2"
      [] r = Ok(38) -> "L3_S1"
      [] r = Ok(39) -> "L3_S2"
      [] r = Ok(40) -> "L4_1"
      [] r = Ok(41) -> "L4_2"
      [] r = Ok(42) -> "L4_3"
      [] r = Ok(43) -> "L4_B1"
      [] r = Ok(44) -> "L4_4"
      [] r = Ok(45) -> "L4_5"
      [] r = Ok(46) -> "L4_6"
      [] r = Ok(47) -> "L4_B2"
      [] r = Ok(48) -> "L4_S1"
      [] r = Ok(49) -> "L4_S2"
      [] r = Ok(50) -> "L5_1"
      [] r = Ok(51) -> "L5_2"
      [] r = Ok(52) -> "L5_3"
      [] r = Ok(53) -> "L5_4"
      [] r = Ok(54) -> "L5_B1"
      [] OTHER -> "L1_1"

-----------------------------------------------------------------------------
(* Watcher<T> and Pair<T> *)

default_watcher == [pair |-> None]

\* the watcher update as it would be if the old value were never shifted
update_infallible_keeps_old(watcher, value) ==
    IF is_some(watcher.pair)
    THEN [pair |-> Some([old |-> unwrap(watcher.pair).old, current |-> value])]
    ELSE [pair |-> Some([old |-> value, current |-> value])]

update_infallible(watcher, value) ==
    IF is_some(watcher.pair)
    THEN [pair |-> Some([old |-> unwrap(watcher.pair).current, current |-> value])]
    ELSE [pair |-> Some([old |-> value, current |-> value])]

changed_from_to(pair, old, current) == pair.old = old /\ pair.current = current

default_watchers ==
    [level |-> default_watcher,
     level_complete_flag |-> default_watcher,
     game_status |-> default_watcher]

\* update_loop as it would be if it forgot the level watcher
update_loop_skips_level(w, r) ==
    [game_status |-> update_infallible(w.game_status, decode_game_status(r.game_status)),
     level_complete_flag |->
        update_infallible(w.level_complete_flag,
                          decode_level_complete_flag(r.level_complete_flag)),
     level |-> w.level]

\* update_loop as it would be if a failed read left its watcher alone
update_loop_fallible(w, r) ==
    [game_status |->
        IF r.game_status.ok
        THEN update_infallible(w.game_status, decode_game_status(r.game_status))
        ELSE w.game_status,
     level_complete_flag |->
        IF r.level_complete_flag.ok
        THEN update_infallible(w.level_complete_flag,
                               decode_level_complete_flag(r.level_complete_flag))
        ELSE w.level_complete_flag,
     level |->
        IF r.level_id.ok
        THEN update_infallible(w.level, decode_level(r.level_id))
        ELSE w.level]

\* update_loop as it would be if the level watcher were fed only by a
\* successful read of a known level code
update_loop_keeps_level(w, r) ==
    [game_status |-> update_infallible(w.game_status, decode_game_status(r.game_status)),
     level_complete_flag |->
        update_infallible(w.level_complete_flag,
                          decode_level_complete_flag(r.level_complete_flag)),
     level |-> IF r.level_id.ok /\ r.level_id.val \in 10 .. 54
               THEN update_infallible(w.level, decode_level(r.level_id))
               ELSE w.level]

update_loop(w, r) ==
    [game_status |-> update_infallible(w.game_status, decode_game_status(r.game_status)),
     level_complete_flag |->
        update_infallible(w.level_complete_flag,
                          decode_level_complete_flag(r.level_complete_flag)),
     level |-> update_infallible(w.level, decode_level(r.level_id))]

-----------------------------------------------------------------------------
(* Decision functions *)

\* start as it would be if it looked at the level held before the update
start_uses_old_level(w, s) ==
    IF ~s.start
    THEN FALSE
    ELSE /\ is_some(w.game_status.pair)
         /\ changed_from_to(unwrap(w.game_status.pair), "MainMenu", "WorldMap")
         /\ is_some(w.level.pair)
         /\ unwrap(w.level.pair).old = "L1_1"

\* start as it would be if being on the world map were enough
start_on_world_map(w, s) ==
    IF ~s.start
    THEN FALSE
    ELSE /\ is_some(w.game_status.pair)
         /\ unwrap(w.game_status.pair).current = "WorldMap"
         /\ is_some(w.level.pair)
         /\ unwrap(w.level.pair).current = "L1_1"

start(w, s) ==
    IF ~s.start
    THEN FALSE
    ELSE /\ is_some(w.game_status.pair)
         /\ changed_from_to(unwrap(w.game_status.pair), "MainMenu", "WorldMap")
         /\ is_some(w.level.pair)
         /\ unwrap(w.level.pair).current = "L1_1"

\* is_loading as it would be if it reported "not loading"
is_loading_not_loading(w, s) == Some(FALSE)

is_loading(w, s) == None

split_level_setting(old, s) ==
    CASE old = Some("L1_1") -> s.level_1_1
      [] old = Some("L1_2") -> s.level_1_2
      [] old = Some("L1_3") -> s.level_1_3
      [] old = Some("L1_4") -> s.level_1_4
      [] old = Some("L1_5") -> s.level_1_5
      [] old = Some("L1_6") -> s.level_1_6
      [] old = Some("L1_B1") -> s.level_1_b1
      [] old = Some("L1_B2") -> s.level_1_b2
      [] old = Some("L1_S1") -> s.level_1_s1
      [] old = Some("L1_S2") -> s.level_1_s2
      [] old = Some("L2_1") -> s.level_2_1
      [] old = Some("L2_2") -> s.level_2_2
      [] old = Some("L2_3") -> s.level_2_3
      [] old = Some("L2_4") -> s.level_2_4
      [] old = Some("L2_5") -> s.level_2_5
      [] old = Some("L2_6") -> s.level_2_6
      [] old = Some("L2_B1") -> s.level_2_b1
      [] old = Some("L2_B2") -> s.level_2_b2
      [] old = Some("L2_S1") -> s.level_2_s1
      [] old = Some("L2_S2") -> s.level_2_s2
      [] old = Some("L3_1") -> s.level_3_1
      [] old = Some("L3_2") -> s.level_3_2
      [] old = Some("L3_3") -> s.level_3_3
      [] old = Some("L3_4") -> s.level_3_4
      [] old = Some("L3_5") -> s.level_3_5
      [] old = Some("L3_6") -> s.level_3_6
      [] old = Some("L3_B1") -> s.level_3_b1
      [] old = Some("L3_B2") -> s.level_3_b2
      [] old = Some("L3_S1") -> s.level_3_s1
      [] old = Some("L3_S2") -> s.level_3_s2
      [] old = Some("L4_1") -> s.level_4_1
      [] old = Some("L4_2") -> s.level_4_2
      [] old = Some("L4_3") -> s.level_4_3
      [] old = Some("L4_4") -> s.level_4_4
      [] old = Some("L4_5") -> s.level_4_5
      [] old = Some("L4_6") -> s.level_4_6
      [] old = Some("L4_B1") -> s.level_4_b1
      [] old = Some("L4_B2") -> s.level_4_b2
      [] old = Some("L4_S1") -> s.level_4_s1
      [] old = Some("L4_S2") -> s.level_4_s2
      [] old = Some("L5_1") -> s.level_5_1
      [] old = Some("L5_2") -> s.level_5_2
      [] old = Some("L5_3") -> s.level_5_3
      [] old = Some("L5_4") -> s.level_5_4
      [] old = Some("L5_B1") -> s.level_5_b1
      [] OTHER -> FALSE

\* split as it would be if it consulted the level being entered
split_uses_current_level(w, s) ==
    /\ is_some(w.game_status.pair)
    /\ unwrap(w.game_status.pair).current = "InGame"
    /\ is_some(w.level_complete_flag.pair)
    /\ changed_from_to(unwrap(w.level_complete_flag.pair), FALSE, TRUE)
    /\ split_level_setting(IF is_some(w.level.pair)
                           THEN Some(unwrap(w.level.pair).current)
                           ELSE None, s)

\* split as it would be if it fired for as long as the flag is set
split_while_flag_set(w, s) ==
    /\ is_some(w.game_status.pair)
    /\ unwrap(w.game_status.pair).current = "InGame"
    /\ is_some(w.level_complete_flag.pair)
    /\ unwrap(w.level_complete_flag.pair).current = TRUE
    /\ split_level_setting(IF is_some(w.level.pair)
                           THEN Some(unwrap(w.level.pair).old)
                           ELSE None, s)

split(w, s) ==
    /\ is_some(w.game_status.pair)
    /\ unwrap(w.game_status.pair).current = "InGame"
    /\ is_some(w.level_complete_flag.pair)
    /\ changed_from_to(unwrap(w.level_complete_flag.pair), FALSE, TRUE)
    /\ split_level_setting(IF is_some(w.level.pair)
                           THEN Some(unwrap(w.level.pair).old)
                           ELSE None, s)

game_time(w, s, a) == None

reset(w, s) == FALSE

(* Settings: the field that the struct declares for each level *)
level_field(level) ==
    CASE level = "L1_1" -> "level_1_1"
      [] level = "L1_2" -> "level_1_2"
      [] level = "L1_3" -> "level_1_3"
      [] level = "L1_B1" -> "level_1_b1"
      [] level = "L1_S1" -> "level_1_s1"
      [] level = "L1_4" -> "level_1_4"
      [] level = "L1_5" -> "level_1_5"
      [] level = "L1_6" -> "level_1_6"
      [] level = "L1_B2" -> "level_1_b2"
      [] level = "L1_S2" -> "level_1_s2"
      [] level = "L2_1" -> "level_2_1"
      [] level = "L2_2" -> "level_2_2"
      [] level = "L2_3" -> "level_2_3"
      [] level = "L2_B1" -> "level_2_b1"
      [] level = "L2_S1" -> "level_2_s1"
      [] level = "L2_4" -> "level_2_4"
      [] level = "L2_5" -> "level_2_5"
      [] level = "L2_6" -> "level_2_6"
      [] level = "L2_B2" -> "level_2_b2"
      [] level = "L2_S2" -> "level_2_s2"
      [] level = "L3_1" -> "level_3_1"
      [] level = "L3_2" -> "level_3_2"
      [] level = "L3_3" -> "level_3_3"
      [] level = "L3_B1" -> "level_3_b1"
      [] level = "L3_S1" -> "level_3_s1"
      [] level = "L3_4" -> "level_3_4"
      [] level = "L3_5" -> "level_3_5"
      [] level = "L3_6" -> "level_3_6"
      [] level = "L3_B2" -> "level_3_b2"
      [] level = "L3_S2" -> "level_3_s2"
      [] level = "L4_1" -> "level_4_1"
      [] level = "L4_2" -> "level_4_2"
      [] level = "L4_3" -> "level_4_3"
      [] level = "L4_B1" -> "level_4_b1"
      [] level = "L4_S1" -> "level_4_s1"
      [] level = "L4_4" -> "level_4_4"
      [] level = "L4_5" -> "level_4_5"
      [] level = "L4_6" -> "level_4_6"
      [] level = "L4_B2" -> "level_4_b2"
      [] level = "L4_S2" -> "level_4_s2"
      [] level = "L5_1" -> "level_5_1"
      [] level = "L5_2" -> "level_5_2"
      [] level = "L5_3" -> "level_5_3"
      [] level = "L5_4" -> "level_5_4"
      [] level = "L5_B1" -> "level_5_b1"

-----------------------------------------------------------------------------
(* Memory::init: the three address resolutions.  scan is the outcome of     *)
(* scan_process_range (None or Some(hit)), read the outcome of              *)
(* process.read::<i32> at the mapped address.  Addresses are u64 and far    *)
(* from wrapping at the values used here.                                   *)

\* the level-id resolution as it would be without the displacement's own width
locate_level_id_no_skip(scan, read) ==
    IF ~is_some(scan) THEN None
    ELSE LET addr == unwrap(scan) + 8
         IN  IF read.ok THEN Some(addr + read.val) ELSE None

locate_level_id(scan, read) ==
    IF ~is_some(scan) THEN None
    ELSE LET addr == unwrap(scan) + 8
         IN  IF read.ok THEN Some(addr + 4 + read.val) ELSE None

locate_game_status(scan, read) ==
    IF ~is_some(scan) THEN None
    ELSE LET addr == unwrap(scan) + 2
         IN  IF read.ok THEN Some(addr + 4 + read.val) ELSE None

locate_level_complete_screen(scan, read) ==
    IF ~is_some(scan) THEN None
    ELSE LET addr == unwrap(scan) + 6
         IN  IF read.ok THEN Some(addr + 5 + read.val) ELSE None

\* the value bound to level_completion_flag once the retry has resolved
level_completion_flag_of(resolved) == resolved + 1

no_addresses ==
    [level_id |-> None, game_status |-> None, level_completion_flag |-> None]

-----------------------------------------------------------------------------
(* The poll loop's two conditional blocks, as the timer commands and the    *)
(* decision functions they run, in order.  An entry is <<kind, name>> with  *)
(* kind "eval" (a decision function is called), "cmd" (a timer command is   *)
(* issued), "state" (timer::state() is read), "update" (a watcher is        *)
(* updated) or "settings".                                                  *)

loading_commands(loading) ==
    IF loading = Some(TRUE) THEN << <<"cmd", "pause_game_time">> >>
    ELSE IF loading = Some(FALSE) THEN << <<"cmd", "resume_game_time">> >>
    ELSE << >>

\* the running block as it would be if split were tried before reset
running_block_split_first(loading, gt, rst, spl) ==
    << <<"eval", "is_loading">> >> \o loading_commands(loading)
    \o << <<"eval", "game_time">> >>
    \o (IF is_some(gt) THEN << <<"cmd", "set_game_time">> >> ELSE << >>)
    \o << <<"eval", "split">> >>
    \o (IF spl THEN << <<"cmd", "split">> >> ELSE << >>)
    \o << <<"eval", "reset">> >>
    \o (IF rst THEN << <<"cmd", "reset">> >> ELSE << >>)

\* lines 58-75, given what the four decision functions return
running_block(loading, gt, rst, spl) ==
    << <<"eval", "is_loading">> >> \o loading_commands(loading)
    \o << <<"eval", "game_time">> >>
    \o (IF is_some(gt) THEN << <<"cmd", "set_game_time">> >> ELSE << >>)
    \o << <<"eval", "reset">> >>
    \o (IF rst
        THEN << <<"cmd", "reset">> >>
        ELSE << <<"eval", "split">> >>
             \o (IF spl THEN << <<"cmd", "split">> >> ELSE << >>))

\* the start block as it would be if game time were paused before the start
start_block_pause_first(loading) ==
    << <<"cmd", "pause_game_time">>, <<"cmd", "start">>, <<"eval", "is_loading">> >>
    \o loading_commands(loading)

\* lines 79-86, given what is_loading returns
start_block(loading) ==
    << <<"cmd", "start">>, <<"cmd", "pause_game_time">>, <<"eval", "is_loading">> >>
    \o loading_commands(loading)

\* line 57 as it would be if every state but NotRunning ran the block
running_events_unless_not_running(st, w, s, a) ==
    << <<"state", st>> >>
    \o (IF st # "NotRunning"
        THEN running_block(is_loading(w, s), game_time(w, s, a), reset(w, s), split(w, s))
        ELSE << >>)

\* line 57 with its block: st is the value timer::state() returned
running_events(st, w, s, a) ==
    << <<"state", st>> >>
    \o (IF st \in {"Running", "Paused"}
        THEN running_block(is_loading(w, s), game_time(w, s, a), reset(w, s), split(w, s))
        ELSE << >>)

\* line 78 as it would be if start were called whatever the timer state
start_events_any_state(st, w, s) ==
    << <<"state", st>>, <<"eval", "start">> >>
    \o (IF start(w, s) THEN start_block(is_loading(w, s)) ELSE << >>)

\* line 78 with its block: start is called only when the state is NotRunning
start_events(st, w, s) ==
    << <<"state", st>> >>
    \o (IF st = "NotRunning"
        THEN << <<"eval", "start">> >>
             \o (IF start(w, s) THEN start_block(is_loading(w, s)) ELSE << >>)
        ELSE << >>)

\* the sampler's entries, in the order update_loop updates the watchers
update_events ==
    << <<"update", "game_status">>, <<"update", "level_complete_flag">>,
       <<"update", "level">> >>

-----------------------------------------------------------------------------
(* The external timer: how a command issued by the splitter moves it.       *)

timer_after(st, cmd) ==
    CASE cmd = "start" -> IF st = "NotRunning" THEN {"Running"} ELSE {st}
      [] cmd = "split" -> IF st = "Running" THEN {"Running", "Ended"} ELSE {st}
      [] cmd = "reset" -> {"NotRunning"}
      [] OTHER -> {st}

RECURSIVE timer_outcomes(_, _)
timer_outcomes(st, events) ==
    IF events = << >> THEN {st}
    ELSE LET e == Head(events)
             next == IF e[1] = "cmd" THEN timer_after(st, e[2]) ELSE {st}
         IN  UNION {timer_outcomes(n, Tail(events)) : n \in next}

-----------------------------------------------------------------------------
(* Inputs of the program model *)

make_settings(st, enabled) ==
    [f \in SettingsFields |->
        IF f = "start" THEN st ELSE \E l \in enabled : level_field(l) = f]

default_settings == make_settings(TRUE, Level)

SettingsChoices ==
    {default_settings, make_settings(FALSE, Level),
     make_settings(TRUE, Level \ {"L1_1"}), make_settings(TRUE, Level \ {"L1_2"})}

\* the module image of the attached executable: where the three signatures
\* match and the displacement stored behind each
Image ==
    [module |-> [base |-> 16, size |-> 128],
     level_id |-> [hit |-> 40, disp |-> 100],
     game_status |-> [hit |-> 60, disp |-> -30],
     level_complete_screen |-> [hit |-> 20, disp |-> 7]]

alive == process = "open"

StatusReads == (IF alive THEN {Ok(3), Ok(5), Ok(8)} ELSE {}) \cup {Err}
FlagReads == (IF alive THEN {Ok(0), Ok(1)} ELSE {}) \cup {Err}
LevelReads == (IF alive THEN {Ok(10), Ok(11)} ELSE {}) \cup {Err}

\* what a finished tick leaves behind for the next one to be compared with:
\* whether it issued a split, whether its completion-flag read succeeded,
\* the flag it decoded, and, if the read failed, the flag decoded before it
tick_summary(events, r, before) ==
    [split |-> \E i \in DOMAIN events : events[i] = <<"cmd", "split">>,
     flag_ok |-> r.level_complete_flag.ok,
     flag |-> decode_level_complete_flag(r.level_complete_flag),
     flag_before |-> ~r.level_complete_flag.ok /\ is_some(before) /\ unwrap(before).flag]

no_raw == None
idle == [op |-> "none"]

SessionPcs ==
    {"init_base", "init_size", "scan_level_id", "scan_game_status",
     "scan_level_complete", "tick", "update", "check_running", "check_start",
     "next_tick"}

\* a parked task resumes only through until_closes, which checks is_open first
resumable == ~awaiting \/ process = "open"

-----------------------------------------------------------------------------
(* Initial state: Settings::register() has run, nothing is attached *)

Init ==
    /\ pc = "attach"
    /\ awaiting = FALSE
    /\ available \in BOOLEAN
    /\ process = "none"
    /\ main_module = [base |-> None, size |-> None]
    /\ addresses = no_addresses
    /\ watchers = default_watchers
    /\ settings = default_settings
    /\ timerState = "NotRunning"
    /\ raw = no_raw
    /\ log = << >>
    /\ prev = None
    /\ unit = idle

-----------------------------------------------------------------------------
(* The environment: the game process and the user of the timer *)

\* a Croc64.exe process is started
ProcessStart ==
    /\ ~available
    /\ available' = TRUE
    /\ UNCHANGED <<pc, awaiting, process, main_module, addresses, watchers,
                   settings, timerState, raw, log, unit, prev>>

\* the running Croc64.exe process exits; a handle attached to it is closed
ProcessExit ==
    /\ available
    /\ available' = FALSE
    /\ process' = IF process = "open" THEN "closed" ELSE process
    /\ UNCHANGED <<pc, awaiting, main_module, addresses, watchers, settings,
                   timerState, raw, log, unit, prev>>

\* the user (or another component) moves the timer: start, pause, reset, ...
TimerUser ==
    /\ \E st \in TimerStates \ {timerState} : timerState' = st
    /\ UNCHANGED <<pc, awaiting, available, process, main_module, addresses,
                   watchers, settings, raw, log, unit, prev>>

-----------------------------------------------------------------------------
(* main: attaching, lines 30-46 *)

\* retry(Process::attach): no process of that name, try again next tick
AttachRetry ==
    /\ pc = "attach"
    /\ ~available
    /\ UNCHANGED vars

\* Process::attach succeeds; until_closes starts the session with default
\* watchers and enters Memory::init
Attach ==
    /\ pc = "attach"
    /\ available
    /\ process' = "open"
    /\ watchers' = default_watchers
    /\ main_module' = [base |-> None, size |-> None]
    /\ addresses' = no_addresses
    /\ pc' = "init_base"
    /\ awaiting' = TRUE
    /\ prev' = None
    /\ UNCHANGED <<available, settings, timerState, raw, log, unit>>

\* the end of a session as it would be if its watchers and addresses outlived it
ProcessClosed_keeps_session ==
    /\ pc \in SessionPcs
    /\ awaiting
    /\ process = "closed"
    /\ process' = "none"
    /\ raw' = no_raw
    /\ log' = << >>
    /\ pc' = "attach"
    /\ awaiting' = FALSE
    /\ prev' = None
    /\ UNCHANGED <<available, settings, timerState, unit, watchers, main_module,
                   addresses>>

\* until_closes finds the process closed when the parked session is polled:
\* the session (watchers, addresses) is dropped and main loops to attach
ProcessClosed ==
    /\ pc \in SessionPcs
    /\ awaiting
    /\ process = "closed"
    /\ process' = "none"
    /\ watchers' = default_watchers
    /\ main_module' = [base |-> None, size |-> None]
    /\ addresses' = no_addresses
    /\ raw' = no_raw
    /\ log' = << >>
    /\ pc' = "attach"
    /\ awaiting' = FALSE
    /\ prev' = None
    /\ UNCHANGED <<available, settings, timerState, unit>>

-----------------------------------------------------------------------------
(* Memory::init, lines 249-288: each retry either resolves and goes on in   *)
(* the same poll, or parks until the next tick                              *)

GetModuleAddress ==
    /\ pc = "init_base"
    /\ resumable
    /\ \E r \in (IF alive THEN {Ok(Image.module.base)} ELSE {}) \cup {Err} :
          IF r.ok
          THEN /\ main_module' = [main_module EXCEPT !.base = Some(r.val)]
               /\ pc' = "init_size"
               /\ awaiting' = FALSE
          ELSE /\ awaiting' = TRUE
               /\ UNCHANGED <<main_module, pc>>
    /\ UNCHANGED <<available, process, addresses, watchers, settings,
                   timerState, raw, log, unit, prev>>

ReadSizeOfImage ==
    /\ pc = "init_size"
    /\ resumable
    /\ \E r \in (IF alive THEN {Some(Image.module.size)} ELSE {}) \cup {None} :
          IF is_some(r)
          THEN /\ main_module' = [main_module EXCEPT !.size = r]
               /\ pc' = "scan_level_id"
               /\ awaiting' = FALSE
          ELSE /\ awaiting' = TRUE
               /\ UNCHANGED <<main_module, pc>>
    /\ UNCHANGED <<available, process, addresses, watchers, settings,
                   timerState, raw, log, unit, prev>>

ScanInputs(sig) ==
    ((IF alive THEN {Some(Image[sig].hit)} ELSE {}) \cup {None})
    \X ((IF alive THEN {Ok(Image[sig].disp)} ELSE {}) \cup {Err})

ScanLevelId ==
    /\ pc = "scan_level_id"
    /\ resumable
    /\ \E in \in ScanInputs("level_id") :
          LET found == locate_level_id(in[1], in[2])
          IN  IF is_some(found)
              THEN /\ addresses' = [addresses EXCEPT !.level_id = found]
                   /\ pc' = "scan_game_status"
                   /\ awaiting' = FALSE
              ELSE /\ awaiting' = TRUE
                   /\ UNCHANGED <<addresses, pc>>
    /\ UNCHANGED <<available, process, main_module, watchers, settings,
                   timerState, raw, log, unit, prev>>

\* the game-status resolution as it would be if one failed attempt were final
ScanGameStatus_gives_up ==
    /\ pc = "scan_game_status"
    /\ resumable
    /\ \E in \in ScanInputs("game_status") :
          /\ addresses' = [addresses EXCEPT
                             !.game_status = locate_game_status(in[1], in[2])]
          /\ pc' = "scan_level_complete"
          /\ awaiting' = FALSE
    /\ UNCHANGED <<available, process, main_module, watchers, settings,
                   timerState, raw, log, unit, prev>>

ScanGameStatus ==
    /\ pc = "scan_game_status"
    /\ resumable
    /\ \E in \in ScanInputs("game_status") :
          LET found == locate_game_status(in[1], in[2])
          IN  IF is_some(found)
              THEN /\ addresses' = [addresses EXCEPT !.game_status = found]
                   /\ pc' = "scan_level_complete"
                   /\ awaiting' = FALSE
              ELSE /\ awaiting' = TRUE
                   /\ UNCHANGED <<addresses, pc>>
    /\ UNCHANGED <<available, process, main_module, watchers, settings,
                   timerState, raw, log, unit, prev>>

ScanLevelComplete ==
    /\ pc = "scan_level_complete"
    /\ resumable
    /\ \E in \in ScanInputs("level_complete_screen") :
          LET found == locate_level_complete_screen(in[1], in[2])
          IN  IF is_some(found)
              THEN /\ addresses' =
                        [addresses EXCEPT !.level_completion_flag =
                            Some(level_completion_flag_of(unwrap(found)))]
                   /\ pc' = "tick"
                   /\ awaiting' = FALSE
              ELSE /\ awaiting' = TRUE
                   /\ UNCHANGED <<addresses, pc>>
    /\ UNCHANGED <<available, process, main_module, watchers, settings,
                   timerState, raw, log, unit, prev>>

-----------------------------------------------------------------------------
(* main: one tick of the poll loop, lines 54-89 *)

\* line 54: settings.update() takes over what the user has set
SettingsUpdate ==
    /\ pc = "tick"
    /\ resumable
    /\ settings' \in SettingsChoices
    /\ log' = << <<"settings", "update">> >>
    /\ pc' = "update"
    /\ awaiting' = FALSE
    /\ UNCHANGED <<available, process, main_module, addresses, watchers,
                   timerState, raw, unit, prev>>

\* line 55: update_loop reads the three values and feeds the watchers
UpdateLoop ==
    /\ pc = "update"
    /\ \E gs \in StatusReads, fl \in FlagReads, lv \in LevelReads :
          LET r == [game_status |-> gs, level_complete_flag |-> fl, level_id |-> lv]
          IN  /\ raw' = Some(r)
              /\ watchers' = update_loop(watchers, r)
    /\ log' = log \o update_events
    /\ pc' = "check_running"
    /\ UNCHANGED <<awaiting, available, process, main_module, addresses,
                   settings, timerState, unit, prev>>

\* lines 57-76 as they would be if a split consumed the completion flag
CheckRunning_consumes_flag ==
    /\ pc = "check_running"
    /\ LET ev == running_events(timerState, watchers, settings, addresses)
       IN  /\ log' = log \o ev
           /\ timerState' \in timer_outcomes(timerState, ev)
           /\ watchers' =
                 IF \E i \in DOMAIN ev : ev[i] = <<"cmd", "split">>
                 THEN [watchers EXCEPT !.level_complete_flag = default_watcher]
                 ELSE watchers
    /\ pc' = "check_start"
    /\ UNCHANGED <<awaiting, available, process, main_module, addresses,
                   settings, raw, unit, prev>>

\* lines 57-76
CheckRunning ==
    /\ pc = "check_running"
    /\ LET ev == running_events(timerState, watchers, settings, addresses)
       IN  /\ log' = log \o ev
           /\ timerState' \in timer_outcomes(timerState, ev)
    /\ pc' = "check_start"
    /\ UNCHANGED <<awaiting, available, process, main_module, addresses,
                   watchers, settings, raw, unit, prev>>

\* lines 78-87
CheckStart ==
    /\ pc = "check_start"
    /\ LET ev == start_events(timerState, watchers, settings)
       IN  /\ log' = log \o ev
           /\ timerState' \in timer_outcomes(timerState, ev)
    /\ pc' = "next_tick"
    /\ UNCHANGED <<awaiting, available, process, main_module, addresses,
                   watchers, settings, raw, unit, prev>>

\* line 89: next_tick().await parks the task
NextTick ==
    /\ pc = "next_tick"
    /\ pc' = "tick"
    /\ awaiting' = TRUE
    /\ raw' = no_raw
    /\ log' = << >>
    /\ UNCHANGED <<available, process, main_module, addresses, watchers,
                   settings, timerState, unit, prev>>

Next ==
    \/ ProcessStart
    \/ ProcessExit
    \/ TimerUser
    \/ AttachRetry
    \/ Attach
    \/ ProcessClosed
    \/ GetModuleAddress
    \/ ReadSizeOfImage
    \/ ScanLevelId
    \/ ScanGameStatus
    \/ ScanLevelComplete
    \/ SettingsUpdate
    \/ UpdateLoop
    \/ CheckRunning
    \/ CheckStart
    \/ NextTick

Spec == Init /\ [][Next]_vars

-----------------------------------------------------------------------------
(* The same program with a memory of the session's previous tick, for the   *)
(* properties that relate a tick to the one before it.                      *)

\* line 89, the finished tick being remembered
NextTickRemembered ==
    /\ pc = "next_tick"
    /\ pc' = "tick"
    /\ awaiting' = TRUE
    /\ raw' = no_raw
    /\ log' = << >>
    /\ prev' = Some(tick_summary(log, unwrap(raw), prev))
    /\ UNCHANGED <<available, process, main_module, addresses, watchers,
                   settings, timerState, unit>>

NextHist ==
    \/ ProcessStart
    \/ ProcessExit
    \/ TimerUser
    \/ AttachRetry
    \/ Attach
    \/ ProcessClosed
    \/ GetModuleAddress
    \/ ReadSizeOfImage
    \/ ScanLevelId
    \/ ScanGameStatus
    \/ ScanLevelComplete
    \/ SettingsUpdate
    \/ UpdateLoop
    \/ CheckRunning
    \/ CheckStart
    \/ NextTickRemembered

SpecHist == Init /\ [][NextHist]_vars

-----------------------------------------------------------------------------
(* Unit specification: the pure functions applied to inputs drawn from      *)
(* bounded sets.  pc names the function under test; unit holds the inputs   *)
(* that are not part of the program state, and the result.                  *)

MaxRawCode == 60
MaxHit == 5
MaxDisp == 12
MaxPushes == 4

UnitModes ==
    {"unit_decide", "unit_decode", "unit_locate", "unit_block", "unit_watcher"}

UnitStatus == {"MainMenu", "WorldMap", "InGame", "Unknown"}

PairsOf(olds, currents) ==
    {None} \cup {Some([old |-> a, current |-> b]) : a \in olds, b \in currents}

UnitLevelPairs == PairsOf(Level, {"L1_1", "L1_2"})

UnitSettings(l) ==
    LET enabled == IF is_some(l)
                   THEN {Level, {}, {unwrap(l).old}, Level \ {unwrap(l).old}}
                   ELSE {Level, {}}
    IN  {make_settings(st, en) : st \in BOOLEAN, en \in enabled}

UnitWatchers(l) ==
    {[game_status |-> [pair |-> g], level_complete_flag |-> [pair |-> f],
      level |-> [pair |-> l]] :
        g \in PairsOf(UnitStatus, UnitStatus), f \in PairsOf(BOOLEAN, BOOLEAN)}

\* raw u32 reads: every code up to MaxRawCode, some large ones, and a failure
RawU32 == {Ok(c) : c \in (0..MaxRawCode) \cup {255, 256, 65535, 2147483647}} \cup {Err}
\* raw u8 reads: every byte, and a failure
RawU8 == {Ok(c) : c \in 0..255} \cup {Err}

\* scan hits lie above MaxDisp, so that no resolved address is negative
UnitScans == {None} \cup {Some(h) : h \in MaxDisp..(MaxDisp + MaxHit)}
UnitDisps == {Err} \cup {Ok(d) : d \in (0 - MaxDisp)..MaxDisp}

UnitInit ==
    /\ pc \in UnitModes
    /\ awaiting = FALSE
    /\ available = FALSE
    /\ process = "none"
    /\ main_module = [base |-> None, size |-> None]
    /\ addresses = no_addresses
    /\ IF pc = "unit_decide"
       THEN \E l \in UnitLevelPairs :
               \E s \in UnitSettings(l) :
                  /\ settings = s
                  /\ watchers \in UnitWatchers(l)
       ELSE /\ settings = default_settings
            /\ watchers = default_watchers
    /\ timerState = "NotRunning"
    /\ raw = no_raw
    /\ log = << >>
    /\ prev = None
    /\ unit = IF pc = "unit_watcher" THEN [op |-> "push", pushed |-> << >>] ELSE idle

unit_frame ==
    UNCHANGED <<pc, awaiting, available, process, main_module, addresses,
                settings, timerState, raw, log, prev>>

UnitSplit ==
    /\ pc = "unit_decide"
    /\ unit = idle
    /\ unit' = [op |-> "split", out |-> split(watchers, settings)]
    /\ UNCHANGED watchers
    /\ unit_frame

UnitStart ==
    /\ pc = "unit_decide"
    /\ unit = idle
    /\ unit' = [op |-> "start", out |-> start(watchers, settings)]
    /\ UNCHANGED watchers
    /\ unit_frame

UnitDecode ==
    /\ pc = "unit_decode"
    /\ unit = idle
    /\ \E r \in RawU32, b \in RawU8 :
          /\ raw' = Some([game_status |-> r, level_complete_flag |-> b, level_id |-> r])
          /\ watchers' = update_loop(watchers,
                            [game_status |-> r, level_complete_flag |-> b, level_id |-> r])
    /\ unit' = [op |-> "decode"]
    /\ UNCHANGED <<pc, awaiting, available, process, main_module, addresses,
                   settings, timerState, log, prev>>

UnitLocate ==
    /\ pc = "unit_locate"
    /\ unit = idle
    /\ \E scan \in UnitScans, read \in UnitDisps :
          LET flag == locate_level_complete_screen(scan, read)
          IN  /\ unit' = [op |-> "locate", scan |-> scan, read |-> read]
              /\ addresses' =
                    [level_id |-> locate_level_id(scan, read),
                     game_status |-> locate_game_status(scan, read),
                     level_completion_flag |->
                        IF is_some(flag)
                        THEN Some(level_completion_flag_of(unwrap(flag)))
                        ELSE None]
    /\ UNCHANGED <<pc, awaiting, available, process, main_module, watchers,
                   settings, timerState, raw, log, prev>>

UnitBlock ==
    /\ pc = "unit_block"
    /\ unit = idle
    /\ \E loading \in {None, Some(TRUE), Some(FALSE)}, gt \in {None, Some(1)},
          rst \in BOOLEAN, spl \in BOOLEAN :
          /\ unit' = [op |-> "block", loading |-> loading, gt |-> gt,
                      rst |-> rst, spl |-> spl]
          /\ log' = running_block(loading, gt, rst, spl)
    /\ UNCHANGED <<pc, awaiting, available, process, main_module, addresses,
                   watchers, settings, timerState, raw, prev>>

UnitPush ==
    /\ pc = "unit_watcher"
    /\ Len(unit.pushed) < MaxPushes
    /\ \E v \in UnitStatus :
          /\ watchers' = [watchers EXCEPT
                            !.game_status = update_infallible(@, v)]
          /\ unit' = [unit EXCEPT !.pushed = Append(@, v)]
    /\ unit_frame

UnitNext ==
    \/ UnitSplit
    \/ UnitStart
    \/ UnitDecode
    \/ UnitLocate
    \/ UnitBlock
    \/ UnitPush

SpecUnit == UnitInit /\ [][UnitNext]_vars

-----------------------------------------------------------------------------
(* Properties *)

\* the configuration's answer for a level: the field Settings declares for it
split_enabled(s, level) == s[level_field(level)]

\* C1: split() returns true if and only if the game-status pair is present
\* with current value InGame, the completion-flag pair is present and is
\* exactly (old = false, current = true), and the level pair is present and
\* the configuration enables splitting for its OLD value; with any pair
\* absent the result is false.
C1_SplitIff ==
    (pc = "unit_decide" /\ unit.op = "split") =>
        LET gs == watchers.game_status.pair
            fl == watchers.level_complete_flag.pair
            lv == watchers.level.pair
        IN  unit.out <=>
               /\ is_some(gs) /\ is_some(fl) /\ is_some(lv)
               /\ unwrap(gs).current = "InGame"
               /\ unwrap(fl).old = FALSE
               /\ unwrap(fl).current = TRUE
               /\ split_enabled(settings, unwrap(lv).old)

\* split() is true on the pair (L1_1, L1_2) with only L1_1 enabled
C1_Witness ==
    /\ pc = "unit_decide"
    /\ unit.op = "split"
    /\ unit.out
    /\ watchers.level.pair = Some([old |-> "L1_1", current |-> "L1_2"])
    /\ settings.level_1_1
    /\ ~settings.level_1_2

\* C2: start() returns true if and only if auto-start is enabled, the
\* game-status pair is present and is exactly (old = MainMenu, current =
\* WorldMap), and the level pair is present with current value L1_1.
C2_StartIff ==
    (pc = "unit_decide" /\ unit.op = "start") =>
        LET gs == watchers.game_status.pair
            lv == watchers.level.pair
        IN  unit.out <=>
               /\ settings.start
               /\ is_some(gs) /\ is_some(lv)
               /\ unwrap(gs).old = "MainMenu"
               /\ unwrap(gs).current = "WorldMap"
               /\ unwrap(lv).current = "L1_1"

\* start() is true although the level held before the update was another one
C2_Witness ==
    /\ pc = "unit_decide"
    /\ unit.op = "start"
    /\ unit.out
    /\ unwrap(watchers.level.pair).old = "L5_B1"

-----------------------------------------------------------------------------
(* The current tick's log *)

Has(e) == \E i \in DOMAIN log : log[i] = e
ReadIdx == {i \in DOMAIN log : log[i][1] = "state"}
\* the index of the read of line 57, and of the read of line 78 (0: not yet)
Read1 == IF ReadIdx = {} THEN 0 ELSE CHOOSE i \in ReadIdx : \A j \in ReadIdx : i <= j
Read2 == IF Cardinality(ReadIdx) < 2 THEN 0
         ELSE CHOOSE i \in ReadIdx : \A j \in ReadIdx : j <= i
State1 == IF Read1 = 0 THEN "none" ELSE log[Read1][2]
State2 == IF Read2 = 0 THEN "none" ELSE log[Read2][2]
RunningGroup ==
    {<<"eval", "is_loading">>, <<"eval", "game_time">>, <<"eval", "reset">>,
     <<"eval", "split">>}
sampled == << <<"settings", "update">> >> \o update_events

\* C3: a start command is always followed at once by pause-game-time and
\* then by the evaluation of is_loading, and is issued only right after
\* start() was evaluated on a timer state read as NotRunning; a tick that
\* reads NotRunning for the start check while start() is true issues it.
C3_StartThenPause ==
    /\ \A i \in DOMAIN log :
          log[i] = <<"cmd", "start">> =>
             /\ i + 2 <= Len(log)
             /\ log[i + 1] = <<"cmd", "pause_game_time">>
             /\ log[i + 2] = <<"eval", "is_loading">>
             /\ i > 2
             /\ log[i - 1] = <<"eval", "start">>
             /\ log[i - 2] = <<"state", "NotRunning">>
             /\ i - 2 = Read2
    /\ (pc = "next_tick" /\ State2 = "NotRunning" /\ start(watchers, settings))
          => Has(<<"cmd", "start">>)

\* a tick has issued start and pause-game-time
C3_Witness ==
    /\ pc = "next_tick"
    /\ Has(<<"cmd", "start">>)
    /\ Has(<<"cmd", "pause_game_time">>)

\* C4: the step of line 54 only refreshes the settings; the step of line 55
\* pushes this tick's decoded sample into each of the three watchers once;
\* the two decision steps start from a log that begins with the refresh and
\* the three updates, add no further refresh or update, and leave watchers
\* and settings alone -- whatever the timer state.
C4_SampleFirst ==
    [][ /\ (pc = "tick" /\ pc' = "update") =>
              /\ log' = << <<"settings", "update">> >>
              /\ watchers' = watchers
        /\ (pc = "update" /\ pc' # pc) =>
              /\ log = << <<"settings", "update">> >>
              /\ log' = sampled
              /\ is_some(raw')
              /\ \A k \in {"game_status", "level_complete_flag", "level"} :
                    LET new == CASE k = "game_status" ->
                                      decode_game_status(unwrap(raw').game_status)
                                 [] k = "level_complete_flag" ->
                                      decode_level_complete_flag(
                                          unwrap(raw').level_complete_flag)
                                 [] OTHER -> decode_level(unwrap(raw').level_id)
                    IN  watchers'[k].pair =
                           Some([old |-> IF is_some(watchers[k].pair)
                                         THEN unwrap(watchers[k].pair).current
                                         ELSE new,
                                 current |-> new])
        /\ (pc \in {"check_running", "check_start"} /\ pc' # pc) =>
              /\ SubSeq(log, 1, 4) = sampled
              /\ SubSeq(log', 1, Len(log)) = log
              /\ \A i \in DOMAIN log' :
                    i > 4 => log'[i][1] \in {"state", "eval", "cmd"}
              /\ watchers' = watchers
              /\ settings' = settings
      ]_vars

\* a tick of an ended timer: everything sampled, nothing decided
C4_Witness ==
    /\ pc = "next_tick"
    /\ State1 = "Ended"
    /\ State2 = "Ended"
    /\ Len(log) = 6
    /\ is_some(watchers.level.pair)

\* C5 as stated: no tick evaluates functions of both groups
C5_NeverBothGroups ==
    /\ ~((\E e \in RunningGroup : Has(e)) /\ Has(<<"eval", "start">>))
    /\ ~(Has(<<"cmd", "split">>) /\ Has(<<"cmd", "start">>))

\* C5 (amended): game_time, reset and split are evaluated only between the
\* two reads of the timer state and only when the first read (line 57) is
\* Running or Paused; is_loading there too, or right after start and
\* pause-game-time; start is evaluated only right after the second read
\* (line 78) returned NotRunning.  A tick evaluates both groups only when
\* the first read is Running or Paused and the second NotRunning, and even
\* then it never issues both a split and a start.
C5_GroupsFollowTheirRead ==
    /\ \A i \in DOMAIN log :
          /\ (log[i] \in RunningGroup) =>
                \/ /\ State1 \in {"Running", "Paused"}
                   /\ Read1 < i
                   /\ Read2 = 0 \/ i < Read2
                \/ /\ log[i] = <<"eval", "is_loading">>
                   /\ i > 2
                   /\ log[i - 1] = <<"cmd", "pause_game_time">>
                   /\ log[i - 2] = <<"cmd", "start">>
          /\ (log[i] = <<"eval", "start">>) =>
                /\ i - 1 = Read2
                /\ State2 = "NotRunning"
    /\ ((\E e \in RunningGroup \ {<<"eval", "is_loading">>} : Has(e))
            /\ Has(<<"eval", "start">>))
          => (State1 \in {"Running", "Paused"} /\ State2 = "NotRunning")
    /\ ~(Has(<<"cmd", "split">>) /\ Has(<<"cmd", "start">>))

\* one tick has evaluated split and then start
C5_Witness ==
    /\ pc = "next_tick"
    /\ Has(<<"eval", "split">>)
    /\ Has(<<"eval", "start">>)
    /\ Has(<<"cmd", "start">>)

\* C6: in the running block reset is evaluated before split; when reset is
\* true the reset command is issued and split is neither evaluated nor
\* issued; when it is false split is evaluated next and issued exactly when
\* it is true; a block never issues both reset and split.
C6_ResetBeforeSplit ==
    (pc = "unit_block" /\ unit.op = "block") =>
        /\ \E i \in DOMAIN log :
              /\ log[i] = <<"eval", "reset">>
              /\ \A j \in DOMAIN log :
                    log[j] \in {<<"eval", "split">>, <<"cmd", "split">>,
                                <<"cmd", "reset">>} => i < j
        /\ unit.rst =>
              /\ Has(<<"cmd", "reset">>)
              /\ ~Has(<<"eval", "split">>)
              /\ ~Has(<<"cmd", "split">>)
        /\ ~unit.rst =>
              /\ ~Has(<<"cmd", "reset">>)
              /\ Has(<<"eval", "split">>)
              /\ Has(<<"cmd", "split">>) <=> unit.spl
        /\ ~(Has(<<"cmd", "reset">>) /\ Has(<<"cmd", "split">>))

\* reset is true while split would be true too: only the reset is issued
C6_Witness ==
    /\ pc = "unit_block"
    /\ unit.op = "block"
    /\ unit.rst
    /\ unit.spl
    /\ Has(<<"cmd", "reset">>)

\* C8: when a read of the tick has failed, the tick still leaves
\* update_loop with all three watchers updated (a failed one with Unknown /
\* false / L1_1), the block of each timer state read is still evaluated, and
\* every position of the tick has its next step enabled up to next_tick,
\* which resumes the loop.
C8_ReadFailureTickGoesOn ==
    (pc \in SessionPcs /\ is_some(raw)
        /\ \E k \in DOMAIN unwrap(raw) : ~unwrap(raw)[k].ok) =>
        LET r == unwrap(raw)
        IN  /\ pc \in {"check_running", "check_start", "next_tick"}
            /\ is_some(watchers.game_status.pair)
            /\ is_some(watchers.level_complete_flag.pair)
            /\ is_some(watchers.level.pair)
            /\ ~r.game_status.ok =>
                  unwrap(watchers.game_status.pair).current = "Unknown"
            /\ ~r.level_complete_flag.ok =>
                  unwrap(watchers.level_complete_flag.pair).current = FALSE
            /\ ~r.level_id.ok => unwrap(watchers.level.pair).current = "L1_1"
            /\ r.game_status.ok =>
                  unwrap(watchers.game_status.pair).current
                     = decode_game_status(r.game_status)
            /\ r.level_complete_flag.ok =>
                  unwrap(watchers.level_complete_flag.pair).current
                     = (r.level_complete_flag.val # 0)
            /\ r.level_id.ok =>
                  unwrap(watchers.level.pair).current = decode_level(r.level_id)
            /\ pc = "check_running" => ENABLED CheckRunning
            /\ pc = "check_start" =>
                  /\ ENABLED CheckStart
                  /\ State1 \in {"Running", "Paused"} =>
                        /\ Has(<<"eval", "reset">>)
                        /\ Has(<<"eval", "split">>)
            /\ pc = "next_tick" =>
                  /\ ENABLED NextTick
                  /\ State2 = "NotRunning" => Has(<<"eval", "start">>)

\* all three reads failed under an open handle, and the tick split all the same
C8_Witness ==
    /\ pc = "next_tick"
    /\ process = "open"
    /\ is_some(raw)
    /\ \A k \in DOMAIN unwrap(raw) : ~unwrap(raw)[k].ok
    /\ Has(<<"eval", "split">>)
    /\ State2 = "NotRunning"

\* C7: decoding is total and falls back to defaults: a failed status read
\* and every status code outside {2, 3, 5, 8, 12} decode to Unknown; a
\* failed level read and every level code outside 10..54 decode to L1_1; the
\* flag decodes to false on a failed read and otherwise to "byte nonzero".
C7_DecodeDefaults ==
    (pc = "unit_decode" /\ unit.op = "decode") =>
        LET r == unwrap(raw)
            gs == unwrap(watchers.game_status.pair).current
            fl == unwrap(watchers.level_complete_flag.pair).current
            lv == unwrap(watchers.level.pair).current
        IN  /\ gs \in GameStatus
            /\ lv \in Level
            /\ fl \in BOOLEAN
            /\ (~r.game_status.ok \/ r.game_status.val \notin {2, 3, 5, 8, 12})
                  => gs = "Unknown"
            /\ (~r.level_id.ok \/ r.level_id.val \notin 10..54) => lv = "L1_1"
            /\ ~r.level_complete_flag.ok => fl = FALSE
            /\ r.level_complete_flag.ok => (fl <=> r.level_complete_flag.val # 0)

\* an unrecognized code decoded to the defaults beside a flag byte of 255
C7_Witness ==
    /\ pc = "unit_decode"
    /\ unit.op = "decode"
    /\ unwrap(raw).game_status = Ok(55)
    /\ unwrap(raw).level_complete_flag = Ok(255)
    /\ unwrap(watchers.game_status.pair).current = "Unknown"
    /\ unwrap(watchers.level.pair).current = "L1_1"
    /\ unwrap(watchers.level_complete_flag.pair).current = TRUE

\* C9 as stated: every signature resolves to h + k + 4 + d, the
\* completion-flag one to h + k + 4 + d + 1
C9_AllSkipFour ==
    (pc = "unit_locate" /\ unit.op = "locate" /\ is_some(unit.scan) /\ unit.read.ok) =>
        LET h == unwrap(unit.scan)
            d == unit.read.val
        IN  /\ addresses.level_id = Some(h + 8 + 4 + d)
            /\ addresses.game_status = Some(h + 2 + 4 + d)
            /\ addresses.level_completion_flag = Some(h + 6 + 4 + d + 1)

\* C9 (amended): with scan hit h and signed displacement d read at h + k,
\* the level-id address is h + 8 + 4 + d and the game-status address is
\* h + 2 + 4 + d; the completion-flag indirection skips 5 bytes, not 4, and
\* the trailing + 1 is added to that: h + 6 + 5 + d + 1.  A failed scan or
\* a failed read resolves nothing.
C9_Resolved ==
    (pc = "unit_locate" /\ unit.op = "locate") =>
        IF is_some(unit.scan) /\ unit.read.ok
        THEN LET h == unwrap(unit.scan)
                 d == unit.read.val
             IN  /\ addresses.level_id = Some(h + 8 + 4 + d)
                 /\ addresses.game_status = Some(h + 2 + 4 + d)
                 /\ addresses.level_completion_flag = Some(h + 6 + 5 + d + 1)
        ELSE addresses = no_addresses

\* a negative displacement resolved to an address below the scan hit
C9_Witness ==
    /\ pc = "unit_locate"
    /\ unit.op = "locate"
    /\ is_some(unit.scan)
    /\ unit.read.ok
    /\ unit.read.val < 0
    /\ unwrap(addresses.game_status) < unwrap(unit.scan)
    /\ unwrap(addresses.level_completion_flag) = unwrap(unit.scan) + 6 + 5 + unit.read.val + 1

\* the pair of the watcher under test, and the values pushed into it
PushedPair == unwrap(watchers.game_status.pair)
Pushed == unit.pushed

\* C10 as stated: changed_from_to(a, b) is true exactly when the last two
\* pushed values are a then b
C10_OnlyLastTwo ==
    (pc = "unit_watcher" /\ Len(Pushed) >= 1) =>
        LET n == Len(Pushed)
        IN  /\ n = 1 => PushedPair = [old |-> Pushed[1], current |-> Pushed[1]]
            /\ n > 1 => PushedPair = [old |-> Pushed[n - 1], current |-> Pushed[n]]
            /\ \A a, b \in UnitStatus :
                  changed_from_to(PushedPair, a, b)
                     <=> (n > 1 /\ Pushed[n - 1] = a /\ Pushed[n] = b)

\* C10 (amended): after the first push the pair is old = current = v1,
\* after each later push it is (old = v(i-1), current = vi), and
\* changed_from_to(a, b) is true exactly when the last two pushed values are
\* a then b or when a single value v1 has been pushed and a = b = v1.
C10_PairFollowsPushes ==
    (pc = "unit_watcher") =>
        LET n == Len(Pushed)
        IN  /\ n = 0 => watchers.game_status.pair = None
            /\ n = 1 => PushedPair = [old |-> Pushed[1], current |-> Pushed[1]]
            /\ n > 1 => PushedPair = [old |-> Pushed[n - 1], current |-> Pushed[n]]
            /\ n >= 1 =>
                  \A a, b \in UnitStatus :
                     changed_from_to(PushedPair, a, b)
                        <=> \/ n > 1 /\ Pushed[n - 1] = a /\ Pushed[n] = b
                            \/ n = 1 /\ a = Pushed[1] /\ b = Pushed[1]

\* MainMenu then WorldMap pushed after an earlier value: the transition shows
C10_Witness ==
    /\ pc = "unit_watcher"
    /\ Len(Pushed) = 3
    /\ Pushed[1] = "InGame"
    /\ changed_from_to(PushedPair, "MainMenu", "WorldMap")

-----------------------------------------------------------------------------
(* Sessions *)

InitPcs ==
    {"init_base", "init_size", "scan_level_id", "scan_game_status",
     "scan_level_complete"}
TickPcs == SessionPcs \ InitPcs
\* the address each resolution step of Memory::init binds
ScanField(p) ==
    CASE p = "scan_level_id" -> "level_id"
      [] p = "scan_game_status" -> "game_status"
      [] OTHER -> "level_completion_flag"
AllResolved == \A k \in DOMAIN addresses : is_some(addresses[k])

\* C11: a parked session whose process has closed can only be torn down:
\* its watchers and addresses are dropped and main is back at attach; a
\* session starts from attach with default watchers and no address; an
\* address is bound only by its own resolution step, once, from unresolved;
\* the first tick is entered only from the last resolution, and no step of
\* a tick changes an address.
C11_TeardownAndFreshSession ==
    [][ /\ (pc \in SessionPcs /\ awaiting /\ process = "closed" /\ pc' # pc) =>
              /\ pc' = "attach"
              /\ process' = "none"
              /\ watchers' = default_watchers
              /\ addresses' = no_addresses
              /\ main_module' = [base |-> None, size |-> None]
        /\ (pc = "attach" /\ pc' # pc) =>
              /\ pc' = "init_base"
              /\ process' = "open"
              /\ watchers' = default_watchers
              /\ addresses' = no_addresses
              /\ prev' = None
        /\ (pc' = "attach" /\ pc # "attach") => process = "closed"
        /\ (addresses' # addresses /\ pc' # "attach" /\ pc # "attach") =>
              /\ pc \in {"scan_level_id", "scan_game_status", "scan_level_complete"}
              /\ ~is_some(addresses[ScanField(pc)])
              /\ is_some(addresses'[ScanField(pc)])
              /\ \A k \in DOMAIN addresses \ {ScanField(pc)} :
                    addresses'[k] = addresses[k]
        /\ (pc' = "tick" /\ pc \notin {"tick", "next_tick"}) =>
              /\ pc = "scan_level_complete"
              /\ watchers = default_watchers
              /\ AllResolved'
        /\ (pc \in TickPcs /\ pc' \in TickPcs) =>
              /\ addresses' = addresses
              /\ main_module' = main_module
      ]_vars

\* a later session in the middle of its own resolution: the settings show
\* that an earlier session ran ticks, the watchers are default again
C11_Witness ==
    /\ pc = "scan_game_status"
    /\ settings # default_settings
    /\ watchers = default_watchers
    /\ is_some(addresses.level_id)
    /\ ~is_some(addresses.game_status)

\* C12: while main is attaching or Memory::init has not resolved everything,
\* no watcher has been updated, nothing has been read or logged, the
\* addresses are resolved in order and the retry of the current position
\* (or the teardown of a closed session) is enabled; a tick position is
\* reached only with module base, size and all three addresses resolved.
C12_RetryUntilResolved ==
    /\ pc \in {"attach"} \cup InitPcs =>
          /\ watchers = default_watchers
          /\ raw = no_raw
          /\ log = << >>
          /\ prev = None
          /\ ~is_some(addresses.level_completion_flag)
    /\ pc = "attach" =>
          /\ addresses = no_addresses
          /\ ENABLED (Attach \/ AttachRetry)
    /\ pc \in InitPcs =>
          /\ is_some(main_module.base) <=> pc # "init_base"
          /\ is_some(main_module.size) <=> pc \notin {"init_base", "init_size"}
          /\ is_some(addresses.level_id)
                <=> pc \in {"scan_game_status", "scan_level_complete"}
          /\ is_some(addresses.game_status) <=> pc = "scan_level_complete"
          /\ ENABLED (GetModuleAddress \/ ReadSizeOfImage \/ ScanLevelId
                        \/ ScanGameStatus \/ ScanLevelComplete \/ ProcessClosed)
    /\ pc \in TickPcs =>
          /\ is_some(main_module.base)
          /\ is_some(main_module.size)
          /\ AllResolved

\* the last resolution has failed at least once and waits for the next tick
C12_Witness ==
    /\ pc = "scan_level_complete"
    /\ awaiting
    /\ process = "open"
    /\ is_some(addresses.game_status)
    /\ timerState = "Running"

\* C13: the only commands a tick issues are start, pause_game_time and
\* split, and pause_game_time only directly after start; on every reachable
\* watcher state and configuration reset() is false and is_loading() and
\* game_time() have no opinion.
C13_OnlyStartPauseSplit ==
    /\ \A i \in DOMAIN log :
          log[i][1] = "cmd" =>
             /\ log[i][2] \in {"start", "pause_game_time", "split"}
             /\ log[i][2] = "pause_game_time" =>
                   (i > 1 /\ log[i - 1] = <<"cmd", "start">>)
    /\ reset(watchers, settings) = FALSE
    /\ is_loading(watchers, settings) = None
    /\ game_time(watchers, settings, addresses) = None

\* a tick of a paused timer evaluated all four functions and issued one split
C13_Witness ==
    /\ pc = "next_tick"
    /\ State1 = "Paused"
    /\ Has(<<"eval", "is_loading">>)
    /\ Has(<<"eval", "game_time">>)
    /\ Has(<<"eval", "reset">>)
    /\ Has(<<"cmd", "split">>)
    /\ Cardinality({i \in DOMAIN log : log[i][1] = "cmd"}) = 1

\* C14: the watchers change only in the step of line 55 (and when a session
\* starts or ends), the settings only in the step of line 54; the decision
\* steps and the end of the tick leave both as they are.
C14_DecisionsReadOnly ==
    [][ /\ (watchers' # watchers) =>
              \/ pc = "update" /\ pc' = "check_running"
              \/ pc' = "attach"
        /\ (settings' # settings) => (pc = "tick" /\ pc' = "update")
        /\ (pc \in {"check_running", "check_start", "next_tick"}
               /\ pc' \in TickPcs) =>
              /\ watchers' = watchers
              /\ settings' = settings
      ]_vars

\* a tick that started the timer ends with the sample it began with
C14_Witness ==
    /\ pc = "next_tick"
    /\ Has(<<"cmd", "start">>)
    /\ watchers.game_status.pair = Some([old |-> "MainMenu", current |-> "WorldMap"])
    /\ watchers.level_complete_flag.pair = Some([old |-> TRUE, current |-> FALSE])
    /\ ~settings.level_1_2

-----------------------------------------------------------------------------
(* Consecutive ticks of a session *)

\* the flag this tick decoded from its read
flag_now == decode_level_complete_flag(unwrap(raw).level_complete_flag)
\* the running block of this tick has been passed
decided == pc \in {"check_start", "next_tick"}

\* C16: a tick that issues a split follows, within its session, a tick that
\* issued none and that decoded the other value of the completion flag; so
\* no two consecutive ticks split and no tick splits while the decoded flag
\* is what it was in the tick before.
C16_EdgeTriggered ==
    (decided /\ Has(<<"cmd", "split">>) /\ is_some(prev)) =>
        /\ ~unwrap(prev).split
        /\ unwrap(prev).flag # flag_now

\* the tick after a split: the flag is still set, the timer still runs, the
\* game is in a level whose setting is on, and no split is issued
C16_Witness ==
    /\ pc = "next_tick"
    /\ is_some(prev)
    /\ unwrap(prev).split
    /\ flag_now
    /\ State1 = "Running"
    /\ unwrap(watchers.game_status.pair).current = "InGame"
    /\ split_enabled(settings, unwrap(watchers.level.pair).old)
    /\ Has(<<"eval", "split">>)
    /\ ~Has(<<"cmd", "split">>)

\* C17: in the first tick of a session no start and no split is issued, and
\* once update_loop has run every watcher holds a pair with old = current.
C17_FirstTickSilent ==
    (pc \in TickPcs /\ prev = None) =>
        /\ ~Has(<<"cmd", "start">>)
        /\ ~Has(<<"cmd", "split">>)
        /\ pc \in {"check_running", "check_start", "next_tick"} =>
              \A k \in DOMAIN watchers :
                 /\ is_some(watchers[k].pair)
                 /\ unwrap(watchers[k].pair).old = unwrap(watchers[k].pair).current

\* a first tick that finds the game on the world map of the first level with
\* the flag set, the timer not running and start enabled: start() was asked
C17_Witness ==
    /\ pc = "next_tick"
    /\ prev = None
    /\ State2 = "NotRunning"
    /\ settings.start
    /\ watchers.game_status.pair = Some([old |-> "WorldMap", current |-> "WorldMap"])
    /\ watchers.level.pair = Some([old |-> "L1_1", current |-> "L1_1"])
    /\ watchers.level_complete_flag.pair = Some([old |-> TRUE, current |-> TRUE])
    /\ Has(<<"eval", "start">>)

\* C18: a read of the timer state that returns none of NotRunning, Running
\* and Paused is followed by no evaluation and no command: after the read of
\* line 57 comes the read of line 78 at once, after the read of line 78 the
\* tick ends; the log still begins with the settings refresh and the three
\* watcher updates, and the watchers hold this tick's sample.
C18_OtherStateNoDecision ==
    /\ (decided /\ State1 \notin {"NotRunning", "Running", "Paused"}) =>
          /\ SubSeq(log, 1, Len(sampled)) = sampled
          /\ Read1 = Len(sampled) + 1
          /\ Len(log) = Read1 \/ log[Read1 + 1][1] = "state"
          /\ unwrap(watchers.game_status.pair).current
                = decode_game_status(unwrap(raw).game_status)
          /\ unwrap(watchers.level_complete_flag.pair).current = flag_now
          /\ unwrap(watchers.level.pair).current = decode_level(unwrap(raw).level_id)
    /\ (pc = "next_tick" /\ State2 \notin {"NotRunning", "Running", "Paused"}) =>
          Len(log) = Read2

\* a tick of an ended timer: both reads return Ended, the flag watcher has
\* moved on, and the log holds only the sampling and the two reads
C18_Witness ==
    /\ pc = "next_tick"
    /\ State1 = "Ended"
    /\ State2 = "Ended"
    /\ watchers.level_complete_flag.pair = Some([old |-> TRUE, current |-> FALSE])
    /\ Len(log) = Len(sampled) + 2

\* C19: when the flag read of the previous tick failed and this tick reads a
\* nonzero byte, the flag pair is (false, true); and if the timer state read
\* at line 57 is Running or Paused, the status is InGame and the old level's
\* setting is on, the tick issues a split.
C19_FailedFlagReadIsZero ==
    (decided /\ is_some(prev) /\ ~unwrap(prev).flag_ok
        /\ unwrap(raw).level_complete_flag.ok
        /\ unwrap(raw).level_complete_flag.val # 0) =>
        /\ watchers.level_complete_flag.pair = Some([old |-> FALSE, current |-> TRUE])
        /\ (State1 \in {"Running", "Paused"}
               /\ unwrap(watchers.game_status.pair).current = "InGame"
               /\ split_enabled(settings, unwrap(watchers.level.pair).old))
              => Has(<<"cmd", "split">>)

\* the flag was set, then its read failed, then it read as set again: the
\* last tick split
C19_Witness ==
    /\ pc = "next_tick"
    /\ is_some(prev)
    /\ ~unwrap(prev).flag_ok
    /\ unwrap(prev).flag_before
    /\ unwrap(raw).level_complete_flag = Ok(1)
    /\ Has(<<"cmd", "split">>)

-----------------------------------------------------------------------------
(* Two runs side by side.  The first run lives in the program variables, the *)
(* second in the record unit.  Both see the same settings, the same status   *)
(* and flag reads and the same user of the timer; they differ only in the    *)
(* level read: where the first run reads the code of the first level, the    *)
(* second may read an unrecognized code or fail.                             *)

\* the codes update_loop has an arm for (lines 379-423)
RecognizedLevelCodes == 10 .. 54

\* what the second run may read where the first reads lv
LevelVariants(lv) ==
    IF lv = Ok(10)
    THEN {lv, Err} \cup {Ok(c) : c \in {0, 9, 55, MaxRawCode} \ RecognizedLevelCodes}
    ELSE {lv}

TwinInit ==
    /\ pc = "tick"
    /\ awaiting = FALSE
    /\ available = TRUE
    /\ process = "open"
    /\ main_module = [base |-> Some(Image.module.base), size |-> Some(Image.module.size)]
    /\ addresses =
          [level_id |->
              locate_level_id(Some(Image.level_id.hit), Ok(Image.level_id.disp)),
           game_status |->
              locate_game_status(Some(Image.game_status.hit), Ok(Image.game_status.disp)),
           level_completion_flag |->
              Some(level_completion_flag_of(unwrap(
                 locate_level_complete_screen(Some(Image.level_complete_screen.hit),
                                              Ok(Image.level_complete_screen.disp)))))]
    /\ watchers = default_watchers
    /\ settings = default_settings
    /\ timerState = "NotRunning"
    /\ raw = no_raw
    /\ log = << >>
    /\ prev = None
    /\ unit = [op |-> "twin", watchers |-> default_watchers,
               timerState |-> "NotRunning", raw |-> no_raw, log |-> << >>]

\* the user moves the timer; both runs see the same user
TwinTimerUser ==
    /\ \E st \in TimerStates \ {timerState} :
          /\ timerState' = st
          /\ unit' = [unit EXCEPT !.timerState = st]
    /\ UNCHANGED <<pc, awaiting, available, process, main_module, addresses,
                   watchers, settings, raw, log, prev>>

\* line 54 in both runs
TwinSettingsUpdate ==
    /\ pc = "tick"
    /\ settings' \in SettingsChoices
    /\ log' = << <<"settings", "update">> >>
    /\ unit' = [unit EXCEPT !.log = << <<"settings", "update">> >>]
    /\ pc' = "update"
    /\ UNCHANGED <<awaiting, available, process, main_module, addresses,
                   watchers, timerState, raw, prev>>

\* line 55 in both runs, the level reads differing as LevelVariants allows
TwinUpdateLoop ==
    /\ pc = "update"
    /\ \E gs \in StatusReads, fl \in FlagReads, lv \in LevelReads :
          \E lv2 \in LevelVariants(lv) :
             LET r1 == [game_status |-> gs, level_complete_flag |-> fl, level_id |-> lv]
                 r2 == [game_status |-> gs, level_complete_flag |-> fl, level_id |-> lv2]
             IN  /\ raw' = Some(r1)
                 /\ watchers' = update_loop(watchers, r1)
                 /\ unit' = [unit EXCEPT !.raw = Some(r2),
                                         !.watchers = update_loop(@, r2),
                                         !.log = @ \o update_events]
    /\ log' = log \o update_events
    /\ pc' = "check_running"
    /\ UNCHANGED <<awaiting, available, process, main_module, addresses,
                   settings, timerState, prev>>

\* the timer answers the same commands in the same state the same way
TwinTimer(ev1, ev2) ==
    \E t1 \in timer_outcomes(timerState, ev1) :
       \E t2 \in timer_outcomes(unit.timerState, ev2) :
          /\ (ev1 = ev2 /\ timerState = unit.timerState) => t1 = t2
          /\ timerState' = t1
          /\ unit' = [unit EXCEPT !.timerState = t2, !.log = @ \o ev2]

\* lines 57-76 in both runs
TwinCheckRunning ==
    /\ pc = "check_running"
    /\ LET ev1 == running_events(timerState, watchers, settings, addresses)
           ev2 == running_events(unit.timerState, unit.watchers, settings, addresses)
       IN  /\ log' = log \o ev1
           /\ TwinTimer(ev1, ev2)
    /\ pc' = "check_start"
    /\ UNCHANGED <<awaiting, available, process, main_module, addresses,
                   watchers, settings, raw, prev>>

\* lines 78-87 in both runs
TwinCheckStart ==
    /\ pc = "check_start"
    /\ LET ev1 == start_events(timerState, watchers, settings)
           ev2 == start_events(unit.timerState, unit.watchers, settings)
       IN  /\ log' = log \o ev1
           /\ TwinTimer(ev1, ev2)
    /\ pc' = "next_tick"
    /\ UNCHANGED <<awaiting, available, process, main_module, addresses,
                   watchers, settings, raw, prev>>

\* line 89 in both runs
TwinNextTick ==
    /\ pc = "next_tick"
    /\ pc' = "tick"
    /\ raw' = no_raw
    /\ log' = << >>
    /\ unit' = [unit EXCEPT !.raw = no_raw, !.log = << >>]
    /\ UNCHANGED <<awaiting, available, process, main_module, addresses,
                   watchers, settings, timerState, prev>>

TwinNext ==
    \/ TwinTimerUser
    \/ TwinSettingsUpdate
    \/ TwinUpdateLoop
    \/ TwinCheckRunning
    \/ TwinCheckStart
    \/ TwinNextTick

SpecTwin == TwinInit /\ [][TwinNext]_vars

\* C15: two runs that differ only in that one reads the first level's code
\* where the other reads an unrecognized code or fails the level read hold
\* the same watchers, have issued the same commands in the same order in
\* every tick, and leave the timer in the same state.
C15_FallbackIndistinguishable ==
    /\ watchers = unit.watchers
    /\ log = unit.log
    /\ timerState = unit.timerState

\* the second run could not read the level, and both runs started the timer
C15_Witness ==
    /\ pc = "next_tick"
    /\ unwrap(raw).level_id = Ok(10)
    /\ unwrap(unit.raw).level_id = Err
    /\ Has(<<"cmd", "start">>)
    /\ \E i \in DOMAIN unit.log : unit.log[i] = <<"cmd", "start">>

=============================================================================
